---- MODULE Spec2Model ----
(***************************************************************************)
(* Model of the quiz core of app.py: the router chat_response, the quiz     *)
(* generator/parser generate_quiz_questions_with_rag, and the two quiz      *)
(* handlers submit_answer and next_question, over the module globals        *)
(* quiz_data, current_question and answer_submitted.                        *)
(*                                                                          *)
(* Text is modelled as Python models it: a str is a sequence of characters  *)
(* (one-character strings).  Three non-ASCII characters of the source are   *)
(* written as single sequence elements with ASCII names: "CHECK", "CROSS"   *)
(* and "BULB" for the feedback emoji, and "SUP2" for the superscript two,   *)
(* a character for which str.isdigit() is True and int() raises.            *)
(***************************************************************************)
EXTENDS Integers, Sequences, FiniteSets, TLC

(***************************************************************************)
(* Bounds of the model.                                                     *)
(***************************************************************************)
\* Completion texts are every sequence of at most MaxBlocks blocks.
MaxBlocks == 2

(***************************************************************************)
(* Python str operations, on sequences of characters.                       *)
(***************************************************************************)
Whitespace == {" ", "\n", "\t"}

LowerLetters ==
    <<"a","b","c","d","e","f","g","h","i","j","k","l","m","n","o","p","q","r",
    "s","t","u","v","w","x","y","z">>

UpperLetters ==
    <<"A","B","C","D","E","F","G","H","I","J","K","L","M","N","O","P","Q","R",
    "S","T","U","V","W","X","Y","Z">>

\* str.upper() on one character
UpperChar(c) ==
    IF \E i \in 1..26 : LowerLetters[i] = c
    THEN UpperLetters[CHOOSE i \in 1..26 : LowerLetters[i] = c]
    ELSE c

\* str.lower() on one character
LowerChar(c) ==
    IF \E i \in 1..26 : UpperLetters[i] = c
    THEN LowerLetters[CHOOSE i \in 1..26 : UpperLetters[i] = c]
    ELSE c

\* s.upper()
Upper(s) == [i \in 1..Len(s) |-> UpperChar(s[i])]

\* s.lower()
Lower(s) == [i \in 1..Len(s) |-> LowerChar(s[i])]

\* s.strip(): leading and trailing whitespace removed
Strip(s) ==
    LET keep == {i \in 1..Len(s) : s[i] \notin Whitespace}
    IN  IF keep = {} THEN <<>>
        ELSE LET lo == CHOOSE i \in keep : \A j \in keep : i <= j
                 hi == CHOOSE i \in keep : \A j \in keep : j <= i
             IN  SubSeq(s, lo, hi)

\* sub occurs in s at index i
OccursAt(s, sub, i) ==
    /\ i >= 1
    /\ i + Len(sub) - 1 <= Len(s)
    /\ \A k \in 1..Len(sub) : s[i + k - 1] = sub[k]

\* sub in s
Contains(s, sub) == \E i \in 1..(Len(s) + 1) : OccursAt(s, sub, i)

\* s.split(sep) for a non-empty sep: the pieces between the non-overlapping
\* occurrences of sep taken left to right, empty pieces kept
RECURSIVE Split(_, _)
Split(s, sep) ==
    IF ~Contains(s, sep) THEN <<s>>
    ELSE LET i == CHOOSE k \in 1..Len(s) :
                     /\ OccursAt(s, sep, k)
                     /\ \A j \in 1..(k - 1) : ~OccursAt(s, sep, j)
         IN  <<SubSeq(s, 1, i - 1)>>
                 \o Split(SubSeq(s, i + Len(sep), Len(s)), sep)

\* sep.join(parts)
RECURSIVE Join(_, _)
Join(parts, sep) ==
    IF parts = <<>> THEN <<>>
    ELSE IF Len(parts) = 1 THEN parts[1]
    ELSE parts[1] \o sep \o Join(Tail(parts), sep)

Last(seq) == seq[Len(seq)]

\* seq[:n] for n >= 0
Prefix(seq, n) == SubSeq(seq, 1, IF n < Len(seq) THEN n ELSE Len(seq))

AsciiDigits == <<"0","1","2","3","4","5","6","7","8","9">>

IsAsciiDigit(c) == \E i \in 1..10 : AsciiDigits[i] = c

\* tok.isdigit(): non-empty and every character a digit; the superscript
\* two is a digit to isdigit
IsDigit(tok) ==
    /\ tok # <<>>
    /\ \A i \in 1..Len(tok) : IsAsciiDigit(tok[i]) \/ tok[i] = "SUP2"

\* int(tok) succeeds on a token isdigit accepted: only for decimal digits
IntParses(tok) == \A i \in 1..Len(tok) : IsAsciiDigit(tok[i])

DigitValue(c) == (CHOOSE i \in 1..10 : AsciiDigits[i] = c) - 1

\* int(tok) for a token of decimal digits
RECURSIVE IntOf(_)
IntOf(tok) ==
    IF tok = <<>> THEN 0
    ELSE 10 * IntOf(SubSeq(tok, 1, Len(tok) - 1)) + DigitValue(Last(tok))

(***************************************************************************)
(* String literals of the source.                                           *)
(***************************************************************************)
\* 'Correct Answer:'
CorrectAnswerMarker ==
    <<"C","o","r","r","e","c","t"," ","A","n","s","w","e","r",":">>

\* 'Explanation:'
ExplanationMarker ==
    <<"E","x","p","l","a","n","a","t","i","o","n",":">>

\* '\n\n'
BlankLine ==
    <<"\n","\n">>

\* ' '
Space ==
    <<" ">>

\* 'Error: Failed to generate quiz.'
SentinelQuestionText ==
    <<"E","r","r","o","r",":"," ","F","a","i","l","e","d"," ","t","o"," ","g",
    "e","n","e","r","a","t","e"," ","q","u","i","z",".">>

\* 'N/A'
SentinelCorrectAnswer ==
    <<"N","/","A">>

\* 'No explanation available.'
SentinelExplanation ==
    <<"N","o"," ","e","x","p","l","a","n","a","t","i","o","n"," ","a","v","a",
    "i","l","a","b","l","e",".">>

\* 'Quiz started!'
QuizStartedMsg ==
    <<"Q","u","i","z"," ","s","t","a","r","t","e","d","!">>

\* 'Failed to generate quiz.'
FailedToGenerateMsg ==
    <<"F","a","i","l","e","d"," ","t","o"," ","g","e","n","e","r","a","t","e",
    " ","q","u","i","z",".">>

\* 'No questions available.'
NoQuestionsAvailableMsg ==
    <<"N","o"," ","q","u","e","s","t","i","o","n","s"," ","a","v","a","i","l",
    "a","b","l","e",".">>

\* 'No more questions!'
NoMoreQuestionsMsg ==
    <<"N","o"," ","m","o","r","e"," ","q","u","e","s","t","i","o","n","s",
    "!">>

\* 'No more questions available!'
NoMoreQuestionsAvailableMsg ==
    <<"N","o"," ","m","o","r","e"," ","q","u","e","s","t","i","o","n","s"," ",
    "a","v","a","i","l","a","b","l","e","!">>

\* 'Quiz completed!'
QuizCompletedMsg ==
    <<"Q","u","i","z"," ","c","o","m","p","l","e","t","e","d","!">>

\* 'Quiz finished!'
QuizFinishedMsg ==
    <<"Q","u","i","z"," ","f","i","n","i","s","h","e","d","!">>

\* '✅ Correct!'
CorrectMsg ==
    <<"CHECK"," ","C","o","r","r","e","c","t","!">>

\* '❌ Incorrect. The correct answer is: '
IncorrectPrefix ==
    <<"CROSS"," ","I","n","c","o","r","r","e","c","t","."," ","T","h","e"," ",
    "c","o","r","r","e","c","t"," ","a","n","s","w","e","r"," ","i","s",":",
    " ">>

\* '\n\n💡 Explanation: '
ExplanationPrefix ==
    <<"\n","\n","BULB"," ","E","x","p","l","a","n","a","t","i","o","n",":",
    " ">>

\* 'Error: '
ErrorPrefix ==
    <<"E","r","r","o","r",":"," ">>

\* 'quiz'
QuizWord ==
    <<"q","u","i","z">>

\* 'summarize'
SummarizeWord ==
    <<"s","u","m","m","a","r","i","z","e">>

\* 'summarise'
SummariseWord ==
    <<"s","u","m","m","a","r","i","s","e">>
(***************************************************************************)
(* Inputs: the queries a user types, the texts the completion service       *)
(* returns, and the labels submitted as answers.                            *)
(***************************************************************************)
\* 'give me a quiz with 3 questions'
QuerySpecExample ==
    <<"g","i","v","e"," ","m","e"," ","a"," ","q","u","i","z"," ","w","i","t",
    "h"," ","3"," ","q","u","e","s","t","i","o","n","s">>

\* 'quiz me 2'
QueryQuizMe2 ==
    <<"q","u","i","z"," ","m","e"," ","2">>

\* 'give me 1 Quiz'
QueryGiveMe1Quiz ==
    <<"g","i","v","e"," ","m","e"," ","1"," ","Q","u","i","z">>

\* 'quiz'
QueryQuizOnly ==
    <<"q","u","i","z">>

\* 'quiz me ² now'
QueryQuizSup2 ==
    <<"q","u","i","z"," ","m","e"," ","SUP2"," ","n","o","w">>

\* 'quiz  me 2'
QueryQuizDoubleSpace ==
    <<"q","u","i","z"," "," ","m","e"," ","2">>

\* 'a quiz 0'
QueryQuizCount0 ==
    <<"a"," ","q","u","i","z"," ","0">>

\* 'can you summarize this'
QuerySummarize ==
    <<"c","a","n"," ","y","o","u"," ","s","u","m","m","a","r","i","z","e"," ",
    "t","h","i","s">>

\* 'what is the capital'
QueryCapital ==
    <<"w","h","a","t"," ","i","s"," ","t","h","e"," ","c","a","p","i","t","a",
    "l">>

\* 'summarise the quiz'
QuerySummariseQuiz ==
    <<"s","u","m","m","a","r","i","s","e"," ","t","h","e"," ","q","u","i",
    "z">>

\* 'Q1 A)x C)y\nCorrect Answer: c\nExplanation: e1'
BlockLowerC ==
    <<"Q","1"," ","A",")","x"," ","C",")","y","\n","C","o","r","r","e","c",
    "t"," ","A","n","s","w","e","r",":"," ","c","\n","E","x","p","l","a","n",
    "a","t","i","o","n",":"," ","e","1">>

\* 'Q2\nCorrect Answer: B \nExplanation: e2'
BlockUpperB ==
    <<"Q","2","\n","C","o","r","r","e","c","t"," ","A","n","s","w","e","r",
    ":"," ","B"," ","\n","E","x","p","l","a","n","a","t","i","o","n",":"," ",
    "e","2">>

\* 'Q3\nExplanation: e3'
BlockNoCorrectAnswer ==
    <<"Q","3","\n","E","x","p","l","a","n","a","t","i","o","n",":"," ","e",
    "3">>

\* 'Q4\nCorrect Answer: A'
BlockNoExplanation ==
    <<"Q","4","\n","C","o","r","r","e","c","t"," ","A","n","s","w","e","r",
    ":"," ","A">>

\* 'Explanation: e5\nCorrect Answer: d': both markers, in the other order
BlockMarkersReversed ==
    <<"E","x","p","l","a","n","a","t","i","o","n",":"," ","e","5","\n","C",
    "o","r","r","e","c","t"," ","A","n","s","w","e","r",":"," ","d">>

\* 'Question: 2+2=? A)1 B)2 C)4 D)8\nCorrect Answer: C\nExplanation: 2+2=4'
TextSpecScenario ==
    <<"Q","u","e","s","t","i","o","n",":"," ","2","+","2","=","?"," ","A",")",
    "1"," ","B",")","2"," ","C",")","4"," ","D",")","8","\n","C","o","r","r",
    "e","c","t"," ","A","n","s","w","e","r",":"," ","C","\n","E","x","p","l",
    "a","n","a","t","i","o","n",":"," ","2","+","2","=","4">>

\* 'ok'
AnswerPlain ==
    <<"o","k">>

\* ' ok\n'
AnswerPadded ==
    <<" ","o","k","\n">>

\* 'timeout'
CompletionErrorText ==
    <<"t","i","m","e","o","u","t">>

\* 'B'
LabelUpperB ==
    <<"B">>

\* 'b'
LabelLowerB ==
    <<"b">>

\* 'b) option text'
LabelOptionText ==
    <<"b",")"," ","o","p","t","i","o","n"," ","t","e","x","t">>

\* ' B'
LabelPaddedB ==
    <<" ","B">>

\* 'c'
LabelLowerC ==
    <<"c">>

\* ''
LabelEmpty ==
    <<>>


\* 'p1'
PassageOne ==
    <<"p","1">>

\* 'p2'
PassageTwo ==
    <<"p","2">>

\* 'Error retrieving documents: down'
RetrievalErrorText ==
    <<"E","r","r","o","r"," ","r","e","t","r","i","e","v","i","n","g"," ","d",
    "o","c","u","m","e","n","t","s",":"," ","d","o","w","n">>
\* None: what the radio passes when nothing is selected
NoneAnswer == <<"NONE">>

\* 'Please SUMMARISE'
QueryPleaseSummarise ==
    <<"P","l","e","a","s","e"," ","S","U","M","M","A","R","I","S","E">>

Queries ==
    {QuerySpecExample, QueryQuizMe2, QueryGiveMe1Quiz, QueryQuizOnly,
     QueryQuizSup2, QueryQuizDoubleSpace, QueryQuizCount0, QuerySummarize,
     QueryCapital, QuerySummariseQuiz, QueryPleaseSummarise}

Blocks ==
    {BlockLowerC, BlockUpperB, BlockNoCorrectAnswer, BlockNoExplanation}

UserAnswers ==
    {LabelUpperB, LabelLowerB, LabelOptionText, LabelPaddedB, LabelLowerC,
     LabelEmpty, NoneAnswer}

\* A completion call either returns a text or raises.
CompletionOk(text) == <<"ok", text>>

CompletionRaises == <<"raise", <<>> >>

\* A quiz text: at most MaxBlocks blocks joined by blank lines.
RECURSIVE BlockSeqs(_)
BlockSeqs(n) ==
    IF n = 0 THEN {<<>>}
    ELSE BlockSeqs(n - 1) \cup
         {Append(s, b) : s \in {t \in BlockSeqs(n - 1) : Len(t) = n - 1},
                         b \in Blocks}

\* Six well-formed blocks: more than any count a query of Queries asks for.
LongQuizText ==
    Join(<<BlockLowerC, BlockUpperB, BlockUpperB, BlockLowerC, BlockLowerC,
           BlockUpperB>>, BlankLine)

\* Five blocks of which the first and the third miss a marker.
MixedBlocks ==
    <<BlockNoExplanation, BlockLowerC, BlockNoCorrectAnswer,
      BlockMarkersReversed, BlockUpperB>>

MixedQuizText == Join(MixedBlocks, BlankLine)

QuizTexts ==
    {Join(s, BlankLine) : s \in BlockSeqs(MaxBlocks)}
        \cup {TextSpecScenario, LongQuizText, MixedQuizText}

QuizCompletions == {CompletionOk(t) : t \in QuizTexts} \cup {CompletionRaises}

AnswerCompletions ==
    {CompletionOk(AnswerPlain), CompletionOk(AnswerPadded), CompletionRaises}

\* The similarity search returns passages or raises.
Retrievals == {"chunks", "error"}

Passages == <<PassageOne, PassageTwo>>

(***************************************************************************)
(* retrieve_relevant_chunks and the context of the prompt.                  *)
(***************************************************************************)
\* The passages found, or the one-element list of the except branch: a
\* list of strings either way, so the call never raises.
RetrieveRelevantChunks(retrieved) ==
    IF retrieved = "error" THEN <<RetrievalErrorText>> ELSE Passages

\* context = "\n\n".join(retrieved_chunks)
Context(retrieved) == Join(RetrieveRelevantChunks(retrieved), BlankLine)

(***************************************************************************)
(* generate_quiz_questions_with_rag: the parser of the completion text.     *)
(***************************************************************************)
\* options = ["A", "B", "C", "D"]
Options == << <<"A">>, <<"B">>, <<"C">>, <<"D">> >>

\* Mutant of ParseBlock: the label is stored in uppercase.
ParseBlock_UppercaseLabel(question) ==
    << Strip(Split(question, CorrectAnswerMarker)[1]),
       Options,
       Upper(Strip(Split(Last(Split(question, CorrectAnswerMarker)),
                         ExplanationMarker)[1])),
       Strip(Last(Split(question, ExplanationMarker))) >>

\* the tuple appended for one accepted block
ParseBlock(question) ==
    << Strip(Split(question, CorrectAnswerMarker)[1]),
       Options,
       Strip(Split(Last(Split(question, CorrectAnswerMarker)),
                   ExplanationMarker)[1]),
       Strip(Last(Split(question, ExplanationMarker))) >>

\* Mutant of BlockAccepted: one marker is enough.
BlockAccepted_EitherMarker(question) ==
    \/ Contains(question, CorrectAnswerMarker)
    \/ Contains(question, ExplanationMarker)

\* the test that accepts a block
BlockAccepted(question) ==
    /\ Contains(question, CorrectAnswerMarker)
    /\ Contains(question, ExplanationMarker)

\* the loop over the blocks: parsed_questions
RECURSIVE ParseBlocks(_)
ParseBlocks(questions) ==
    IF questions = <<>> THEN <<>>
    ELSE (IF BlockAccepted(questions[1])
          THEN <<ParseBlock(questions[1])>>
          ELSE <<>>) \o ParseBlocks(Tail(questions))

\* quiz_text = content.strip(); questions = quiz_text.split("\n\n"); loop
ParsedQuestions(content) == ParseBlocks(Split(Strip(content), BlankLine))

\* the list returned when the completion call raises
SentinelQuestions ==
    << <<SentinelQuestionText, <<>>, SentinelCorrectAnswer,
         SentinelExplanation>> >>

\* Mutant of GenerateQuizQuestions: the sentinel also stands in for an
\* empty parse.
GenerateQuizQuestions_SentinelWhenEmpty(completion, num_questions) ==
    IF completion[1] = "raise" THEN SentinelQuestions
    ELSE IF ParsedQuestions(completion[2]) = <<>> THEN SentinelQuestions
    ELSE Prefix(ParsedQuestions(completion[2]), num_questions)

\* the value generate_quiz_questions_with_rag returns
GenerateQuizQuestions(completion, num_questions) ==
    IF completion[1] = "raise"
    THEN SentinelQuestions
    ELSE Prefix(ParsedQuestions(completion[2]), num_questions)

(***************************************************************************)
(* handle_prompt: the single-shot answer or summary.                        *)
(***************************************************************************)
HandlePrompt(completion) ==
    IF completion[1] = "raise"
    THEN ErrorPrefix \o CompletionErrorText
    ELSE Strip(completion[2])

(***************************************************************************)
(* chat_response: classification and the question count.                    *)
(***************************************************************************)
\* Mutant of IsQuizRequest: the query is not lower-cased.
IsQuizRequest_CaseSensitive(query) == Contains(query, QuizWord)

IsQuizRequest(query) == Contains(Lower(query), QuizWord)

IsSummarizeRequest(query) ==
    \/ Contains(Lower(query), SummarizeWord)
    \/ Contains(Lower(query), SummariseWord)

\* the default of the conditional expression of line 226
DefaultNumQuestions == 5

\* query.split(" ")
QueryTokens(query) == Split(query, Space)

\* line 226 raises: IndexError when there is no third token, ValueError
\* when isdigit accepts a token int rejects
NumQuestionsRaises(query) ==
    IF Len(QueryTokens(query)) < 3
    THEN TRUE
    ELSE /\ IsDigit(QueryTokens(query)[3])
         /\ ~IntParses(QueryTokens(query)[3])

\* num_questions, when line 226 does not raise
NumQuestions(query) ==
    IF IsDigit(QueryTokens(query)[3])
    THEN IntOf(QueryTokens(query)[3])
    ELSE DefaultNumQuestions

(***************************************************************************)
(* What chat_response computes from its inputs, tabulated once over the    *)
(* inputs of the model: a step draws a row instead of a query, a           *)
(* retrieval and a completion, and so parses no text again.                *)
(***************************************************************************)
\* query, "quiz" in query.lower(), the test of line 237, line 226 raises,
\* num_questions
RouteTable ==
    {[query |-> q,
      quiz |-> IsQuizRequest(q),
      summarize |-> IsSummarizeRequest(q),
      raises |-> IF IsQuizRequest(q) THEN NumQuestionsRaises(q) ELSE FALSE,
      num_questions |-> IF IsQuizRequest(q) /\ ~NumQuestionsRaises(q)
                        THEN NumQuestions(q) ELSE 0] : q \in Queries}

\* For each question count and each outcome of the retriever and of the
\* completion call: whether the completion call raised, the text it
\* returned, how many blocks the parser accepted, and the list
\* generate_quiz_questions_with_rag returns.  The context reaches the
\* prompt only, so the rows of the two retrievals coincide.
GenerationTable ==
    {[num_questions |-> n,
      context_len |-> Len(Context(retrieved)) * 0,
      completion_raised |-> c[1] = "raise",
      content |-> c[2],
      accepted |-> IF c[1] = "raise" THEN 0
                   ELSE Len(ParsedQuestions(c[2])),
      returned |-> GenerateQuizQuestions(c, n)] :
        n \in {r.num_questions : r \in RouteTable},
        retrieved \in Retrievals,
        c \in QuizCompletions}

\* The text handle_prompt returns, for each outcome of the retriever and
\* of the completion call.
PromptTable ==
    {HandlePrompt(c) : c \in AnswerCompletions}

(***************************************************************************)
(* State.  The three globals, and the values the handlers last returned    *)
(* to the output components.  chat_response returns history + [(query,     *)
(* reply)]; the history is the caller's and no handler reads it, so        *)
(* chatbot holds the appended exchange only.  The interactive flags of     *)
(* the two buttons are outputs, not guards: the handlers are the           *)
(* interface of the core and can be called in any state.                   *)
(***************************************************************************)
VARIABLES
    quiz_data,          \* global: the list of question tuples
    current_question,   \* global: index of the current question (0-based)
    answer_submitted,   \* global: the current question has been answered
    chatbot,            \* output: the exchange chat_response appended
    quiz_question,      \* output: "Current Question" textbox
    answer_choices,     \* output: "Your Answer" radio
    feedback,           \* output: "Feedback" textbox
    submit_answer_btn,  \* output: the Submit Answer button is interactive
    next_btn,           \* output: the Next Question button is interactive
    last,               \* history: the last handler call and its outcome
    pc,                 \* per handler: the statement a running call is at
    frame               \* per handler: the locals of the running call

globals == <<quiz_data, current_question, answer_submitted>>

outputs ==
    <<chatbot, quiz_question, answer_choices, feedback, submit_answer_btn,
      next_btn>>

threads == <<pc, frame>>

vars == <<globals, outputs, last, threads>>

Handlers == {"chat_response", "submit_answer", "next_question"}

\* No call is running.
IdlePc == [h \in Handlers |-> "idle"]

\* A handler that generates no quiz.
NoGeneration ==
    [completion_raised |-> FALSE, content |-> <<>>, accepted |-> 0]

\* The record kept of a handler call: the handler, its argument, the
\* branch it took ("raise": an exception left the handler), the question
\* count it passed on, what the generation met
\* (the completion call raised, the text it returned, the number of blocks
\* accepted), the position, submitted flag and list length the handler
\* found, whether a quiz request replaced the session while the call was
\* running, and the positions whose answer submit_answer has evaluated
\* since the last quiz request.
Call(op, arg, branch, num, generation) ==
    [op |-> op, arg |-> arg, branch |-> branch, num |-> num,
     completion_raised |-> generation.completion_raised,
     content |-> generation.content,
     accepted |-> generation.accepted,
     pos |-> current_question, sub |-> answer_submitted,
     len |-> Len(quiz_data), stale |-> FALSE,
     evaluated |-> CASE op = "chat_response" /\ branch = "quiz" -> {}
                     [] op = "submit_answer" /\ branch = "evaluated"
                            -> last.evaluated \cup {current_question}
                     [] OTHER -> last.evaluated]

\* The locals of the three handlers before a call.
IdleFrame ==
    [chat_response |-> [query |-> <<>>, num_questions |-> 0,
                        generation |-> NoGeneration],
     submit_answer |-> [user_answer |-> <<>>, question |-> <<>>,
                        stale |-> FALSE],
     next_question |-> [question |-> <<>>, stale |-> FALSE]]

Init ==
    /\ quiz_data = <<>>
    /\ current_question = 0
    /\ answer_submitted = FALSE
    /\ chatbot = <<>>
    /\ quiz_question = <<>>
    /\ answer_choices = Options
    /\ feedback = <<>>
    /\ submit_answer_btn = TRUE
    /\ next_btn = FALSE
    /\ last = [op |-> "none", arg |-> <<>>, branch |-> "none", num |-> 0,
               completion_raised |-> FALSE, content |-> <<>>,
               accepted |-> 0, pos |-> 0, sub |-> FALSE, len |-> 0,
               stale |-> FALSE, evaluated |-> {}]
    /\ pc = IdlePc
    /\ frame = IdleFrame

(***************************************************************************)
(* chat_response(history, query)                                            *)
(***************************************************************************)
\* line 226 raises before any global is written; the outputs keep their
\* values
ChatResponseRaises(route) ==
    /\ route.quiz
    /\ route.raises
    /\ last' = Call("chat_response", route.query, "raise", 0, NoGeneration)
    /\ UNCHANGED <<globals, outputs, threads>>

\* Mutant of ChatResponseQuiz: the position is not reset (line 229 left
\* out).
ChatResponseQuiz_KeepsPosition(route, generation) ==
    /\ route.quiz
    /\ ~route.raises
    /\ generation.num_questions = route.num_questions
    /\ quiz_data' = generation.returned
    /\ current_question' = current_question
    /\ answer_submitted' = FALSE
    /\ last' = Call("chat_response", route.query, "quiz",
                    route.num_questions, generation)
    /\ UNCHANGED threads
    /\ IF generation.returned # <<>>
       THEN /\ chatbot' = <<route.query, QuizStartedMsg>>
            /\ quiz_question' = generation.returned[1][1]
            /\ answer_choices' = generation.returned[1][2]
            /\ feedback' = <<>>
            /\ submit_answer_btn' = TRUE
            /\ next_btn' = FALSE
       ELSE /\ chatbot' = <<route.query, FailedToGenerateMsg>>
            /\ quiz_question' = NoQuestionsAvailableMsg
            /\ answer_choices' = <<>>
            /\ feedback' = <<>>
            /\ submit_answer_btn' = FALSE
            /\ next_btn' = FALSE

\* lines 225-235
ChatResponseQuiz(route, generation) ==
    /\ route.quiz
    /\ ~route.raises
    /\ generation.num_questions = route.num_questions
    /\ quiz_data' = generation.returned
    /\ current_question' = 0
    /\ answer_submitted' = FALSE
    /\ last' = Call("chat_response", route.query, "quiz",
                    route.num_questions, generation)
    /\ UNCHANGED threads
    /\ IF generation.returned # <<>>
       THEN /\ chatbot' = <<route.query, QuizStartedMsg>>
            /\ quiz_question' = generation.returned[1][1]
            /\ answer_choices' = generation.returned[1][2]
            /\ feedback' = <<>>
            /\ submit_answer_btn' = TRUE
            /\ next_btn' = FALSE
       ELSE /\ chatbot' = <<route.query, FailedToGenerateMsg>>
            /\ quiz_question' = NoQuestionsAvailableMsg
            /\ answer_choices' = <<>>
            /\ feedback' = <<>>
            /\ submit_answer_btn' = FALSE
            /\ next_btn' = FALSE

\* Mutant of ChatResponsePrompt: the summarize branch and the else branch
\* clear answer_submitted.
ChatResponsePrompt_ClearsSubmitted(route, response) ==
    /\ ~route.quiz
    /\ chatbot' = <<route.query, response>>
    /\ quiz_question' = <<>>
    /\ answer_choices' = <<>>
    /\ feedback' = <<>>
    /\ submit_answer_btn' = FALSE
    /\ next_btn' = FALSE
    /\ last' = Call("chat_response", route.query,
                    IF route.summarize THEN "summarize" ELSE "answer", 0,
                    NoGeneration)
    /\ answer_submitted' = FALSE
    /\ UNCHANGED <<quiz_data, current_question, threads>>

\* lines 237-243: the summarize branch and the else branch both return
\* handle_prompt's text
ChatResponsePrompt(route, response) ==
    /\ ~route.quiz
    /\ chatbot' = <<route.query, response>>
    /\ quiz_question' = <<>>
    /\ answer_choices' = <<>>
    /\ feedback' = <<>>
    /\ submit_answer_btn' = FALSE
    /\ next_btn' = FALSE
    /\ last' = Call("chat_response", route.query,
                    IF route.summarize THEN "summarize" ELSE "answer", 0,
                    NoGeneration)
    /\ UNCHANGED <<globals, threads>>

ChatResponse ==
    \E route \in RouteTable :
        \/ ChatResponseRaises(route)
        \/ \E generation \in GenerationTable :
               ChatResponseQuiz(route, generation)
        \/ \E response \in PromptTable :
               ChatResponsePrompt(route, response)

(***************************************************************************)
(* submit_answer(user_answer)                                               *)
(***************************************************************************)
\* line 148 raises: AttributeError on None, IndexError on a blank label
NormalizeRaises(user_answer) ==
    IF user_answer = NoneAnswer THEN TRUE ELSE Strip(user_answer) = <<>>

\* Mutant of NormalizedUserAnswer: the .upper() is left out.
NormalizedUserAnswer_CaseSensitive(user_answer) == <<Strip(user_answer)[1]>>

\* user_answer.strip()[0].upper()
NormalizedUserAnswer(user_answer) == Upper(<<Strip(user_answer)[1]>>)

\* correct_answer.strip().upper()
NormalizedCorrectAnswer(correct_answer) == Upper(Strip(correct_answer))

\* line 155
IsCorrect(user_answer, correct_answer) ==
    NormalizedUserAnswer(user_answer) = NormalizedCorrectAnswer(correct_answer)

\* line 157
FeedbackMsg(user_answer, question) ==
    IF IsCorrect(user_answer, question[3])
    THEN CorrectMsg
    ELSE IncorrectPrefix \o question[3] \o ExplanationPrefix \o question[4]

\* line 144
HasCurrentQuestion == current_question < Len(quiz_data)

SubmitAnswerRaises(user_answer) ==
    /\ HasCurrentQuestion
    /\ NormalizeRaises(user_answer)
    /\ last' = Call("submit_answer", user_answer, "raise", 0, NoGeneration)
    /\ UNCHANGED <<globals, outputs, threads>>

\* Mutant of SubmitAnswerEvaluates: answer_submitted is set only for a
\* correct answer.
SubmitAnswerEvaluates_SubmittedWhenCorrect(user_answer) ==
    /\ HasCurrentQuestion
    /\ ~NormalizeRaises(user_answer)
    /\ feedback' = FeedbackMsg(user_answer, quiz_data[current_question + 1])
    /\ answer_submitted' = IsCorrect(user_answer,
                                    quiz_data[current_question + 1][3])
    /\ submit_answer_btn' = FALSE
    /\ next_btn' = TRUE
    /\ last' = Call("submit_answer", user_answer, "evaluated", 0,
                    NoGeneration)
    /\ UNCHANGED <<quiz_data, current_question, chatbot, quiz_question,
                   answer_choices, threads>>

\* lines 144-160
SubmitAnswerEvaluates(user_answer) ==
    /\ HasCurrentQuestion
    /\ ~NormalizeRaises(user_answer)
    /\ feedback' = FeedbackMsg(user_answer, quiz_data[current_question + 1])
    /\ answer_submitted' = TRUE
    /\ submit_answer_btn' = FALSE
    /\ next_btn' = TRUE
    /\ last' = Call("submit_answer", user_answer, "evaluated", 0,
                    NoGeneration)
    /\ UNCHANGED <<quiz_data, current_question, chatbot, quiz_question,
                   answer_choices, threads>>

\* lines 162-163
SubmitAnswerNoQuestion(user_answer) ==
    /\ ~HasCurrentQuestion
    /\ feedback' = NoMoreQuestionsMsg
    /\ submit_answer_btn' = FALSE
    /\ next_btn' = FALSE
    /\ last' = Call("submit_answer", user_answer, "no_question", 0,
                    NoGeneration)
    /\ UNCHANGED <<globals, chatbot, quiz_question, answer_choices, threads>>

SubmitAnswer ==
    \E user_answer \in UserAnswers :
        \/ SubmitAnswerEvaluates(user_answer)
        \/ SubmitAnswerNoQuestion(user_answer)
        \/ SubmitAnswerRaises(user_answer)

(***************************************************************************)
(* next_question()                                                          *)
(***************************************************************************)
\* Mutant of CanAdvance: answer_submitted is not tested.
CanAdvance_IgnoresSubmitted == current_question < Len(quiz_data) - 1

\* line 171
CanAdvance == answer_submitted /\ current_question < Len(quiz_data) - 1

\* Mutant of NextQuestionAdvances: line 174, the reset of
\* answer_submitted, is left out.
NextQuestionAdvances_KeepsSubmitted ==
    /\ CanAdvance
    /\ current_question' = current_question + 1
    /\ quiz_question' = quiz_data[current_question + 2][1]
    /\ answer_choices' = quiz_data[current_question + 2][2]
    /\ feedback' = <<>>
    /\ submit_answer_btn' = TRUE
    /\ next_btn' = FALSE
    /\ last' = Call("next_question", <<>>, "advanced", 0, NoGeneration)
    /\ UNCHANGED <<quiz_data, answer_submitted, chatbot, threads>>

\* lines 171-175
NextQuestionAdvances ==
    /\ CanAdvance
    /\ current_question' = current_question + 1
    /\ answer_submitted' = FALSE
    /\ quiz_question' = quiz_data[current_question + 2][1]
    /\ answer_choices' = quiz_data[current_question + 2][2]
    /\ feedback' = <<>>
    /\ submit_answer_btn' = TRUE
    /\ next_btn' = FALSE
    /\ last' = Call("next_question", <<>>, "advanced", 0, NoGeneration)
    /\ UNCHANGED <<quiz_data, chatbot, threads>>

\* Mutant of NextQuestionFinished: the finishing branch clears
\* answer_submitted as the advancing branch does.
NextQuestionFinished_ClearsSubmitted ==
    /\ ~CanAdvance
    /\ answer_submitted' = FALSE
    /\ quiz_question' = IF Len(quiz_data) = 1
                        THEN NoMoreQuestionsAvailableMsg
                        ELSE QuizCompletedMsg
    /\ answer_choices' = <<>>
    /\ feedback' = QuizFinishedMsg
    /\ submit_answer_btn' = FALSE
    /\ next_btn' = FALSE
    /\ last' = Call("next_question", <<>>, "finished", 0, NoGeneration)
    /\ UNCHANGED <<quiz_data, current_question, chatbot, threads>>

\* lines 177-181
NextQuestionFinished ==
    /\ ~CanAdvance
    /\ quiz_question' = IF Len(quiz_data) = 1
                        THEN NoMoreQuestionsAvailableMsg
                        ELSE QuizCompletedMsg
    /\ answer_choices' = <<>>
    /\ feedback' = QuizFinishedMsg
    /\ submit_answer_btn' = FALSE
    /\ next_btn' = FALSE
    /\ last' = Call("next_question", <<>>, "finished", 0, NoGeneration)
    /\ UNCHANGED <<globals, chatbot, threads>>

NextQuestion == NextQuestionAdvances \/ NextQuestionFinished

(***************************************************************************)
(* Specification: each handler runs to completion, in any order.            *)
(***************************************************************************)
Next == ChatResponse \/ SubmitAnswer \/ NextQuestion

Spec == Init /\ [][Next]_vars

(***************************************************************************)
(* The handlers statement by statement.  Gradio runs each handler call on  *)
(* a worker thread, one call per event listener at a time, so a call of    *)
(* one handler can run between two statements of another.  A step below    *)
(* is one statement (or a run of statements that touch no global); a call  *)
(* is stale once a quiz request has cleared quiz_data while it was         *)
(* running.                                                                *)
(***************************************************************************)
\* The inputs of the interleaved specification: a subset of the inputs of
\* Spec, to keep the interleavings of three calls enumerable.
ConcRoutes ==
    {r \in RouteTable : r.query \in {QueryQuizMe2, QueryQuizOnly, QueryCapital}}

ConcGenerations ==
    {g \in GenerationTable :
        /\ g.num_questions = 2
        /\ \/ g.completion_raised
           \/ g.content \in {<<>>, BlockUpperB, LongQuizText}}

ConcAnswers == {LabelUpperB, LabelEmpty}

ConcResponses == {AnswerPlain}

Running(h) == pc[h] # "idle"

Goto(h, label) == pc' = [pc EXCEPT ![h] = label]

\* The record of a call that ends in the interleaved specification.
ConcCall(op, arg, branch, num, generation, stale) ==
    [Call(op, arg, branch, num, generation) EXCEPT !.stale = stale]

\* chat_response, lines 225-227: the count, then quiz_data.clear()
ChatClear(route) ==
    /\ ~Running("chat_response")
    /\ route.quiz
    /\ ~route.raises
    /\ quiz_data' = <<>>
    /\ Goto("chat_response", "extend")
    /\ frame' = [frame EXCEPT
                    !.chat_response = [query |-> route.query,
                                       num_questions |-> route.num_questions,
                                       generation |-> NoGeneration],
                    !.submit_answer.stale = Running("submit_answer"),
                    !.next_question.stale = Running("next_question")]
    /\ UNCHANGED <<current_question, answer_submitted, outputs, last>>

\* line 228: quiz_data.extend(generate_quiz_questions_with_rag(...))
ChatExtend(generation) ==
    /\ pc["chat_response"] = "extend"
    /\ generation.num_questions = frame.chat_response.num_questions
    /\ quiz_data' = quiz_data \o generation.returned
    /\ Goto("chat_response", "reset_position")
    /\ frame' = [frame EXCEPT
                    !.chat_response.generation =
                        [completion_raised |-> generation.completion_raised,
                         content |-> generation.content,
                         accepted |-> generation.accepted]]
    /\ UNCHANGED <<current_question, answer_submitted, outputs, last>>

\* line 229
ChatResetPosition ==
    /\ pc["chat_response"] = "reset_position"
    /\ current_question' = 0
    /\ Goto("chat_response", "reset_submitted")
    /\ UNCHANGED <<quiz_data, answer_submitted, outputs, last, frame>>

\* line 230
ChatResetSubmitted ==
    /\ pc["chat_response"] = "reset_submitted"
    /\ answer_submitted' = FALSE
    /\ Goto("chat_response", "return")
    /\ UNCHANGED <<quiz_data, current_question, outputs, last, frame>>

\* lines 232-235
ChatReturn ==
    /\ pc["chat_response"] = "return"
    /\ IF quiz_data # <<>>
       THEN /\ chatbot' = <<frame.chat_response.query, QuizStartedMsg>>
            /\ quiz_question' = quiz_data[1][1]
            /\ answer_choices' = quiz_data[1][2]
            /\ submit_answer_btn' = TRUE
       ELSE /\ chatbot' = <<frame.chat_response.query, FailedToGenerateMsg>>
            /\ quiz_question' = NoQuestionsAvailableMsg
            /\ answer_choices' = <<>>
            /\ submit_answer_btn' = FALSE
    /\ feedback' = <<>>
    /\ next_btn' = FALSE
    /\ last' = ConcCall("chat_response", frame.chat_response.query, "quiz",
                        frame.chat_response.num_questions,
                        frame.chat_response.generation, FALSE)
    /\ Goto("chat_response", "idle")
    /\ frame' = [frame EXCEPT !.chat_response = IdleFrame.chat_response]
    /\ UNCHANGED globals

\* the branches of chat_response that touch no global
ChatOther ==
    /\ ~Running("chat_response")
    /\ \E route \in ConcRoutes :
           \/ ChatResponseRaises(route)
           \/ \E response \in ConcResponses :
                  ChatResponsePrompt(route, response)

\* submit_answer, line 144 true: go on to read the question
SubmitTestPasses(user_answer) ==
    /\ ~Running("submit_answer")
    /\ HasCurrentQuestion
    /\ Goto("submit_answer", "read")
    /\ frame' = [frame EXCEPT
                    !.submit_answer = [user_answer |-> user_answer,
                                       question |-> <<>>, stale |-> FALSE]]
    /\ UNCHANGED <<globals, outputs, last>>

\* line 144 false: lines 162-163
SubmitTestFails(user_answer) ==
    /\ ~Running("submit_answer")
    /\ SubmitAnswerNoQuestion(user_answer)

\* line 145: quiz_data[current_question], an IndexError when the list has
\* shrunk since the test
SubmitRead ==
    /\ pc["submit_answer"] = "read"
    /\ IF HasCurrentQuestion
       THEN /\ frame' = [frame EXCEPT !.submit_answer.question =
                                          quiz_data[current_question + 1]]
            /\ Goto("submit_answer", "evaluate")
            /\ UNCHANGED last
       ELSE /\ last' = ConcCall("submit_answer",
                                frame.submit_answer.user_answer, "raise", 0,
                                NoGeneration, frame.submit_answer.stale)
            /\ frame' = [frame EXCEPT
                            !.submit_answer = IdleFrame.submit_answer]
            /\ Goto("submit_answer", "idle")
    /\ UNCHANGED <<globals, outputs>>

\* lines 148-160
SubmitEvaluate ==
    /\ pc["submit_answer"] = "evaluate"
    /\ IF NormalizeRaises(frame.submit_answer.user_answer)
       THEN /\ last' = ConcCall("submit_answer",
                                frame.submit_answer.user_answer, "raise", 0,
                                NoGeneration, frame.submit_answer.stale)
            /\ UNCHANGED <<answer_submitted, feedback, submit_answer_btn,
                           next_btn>>
       ELSE /\ feedback' = FeedbackMsg(frame.submit_answer.user_answer,
                                       frame.submit_answer.question)
            /\ answer_submitted' = TRUE
            /\ submit_answer_btn' = FALSE
            /\ next_btn' = TRUE
            /\ last' = ConcCall("submit_answer",
                                frame.submit_answer.user_answer, "evaluated",
                                0, NoGeneration, frame.submit_answer.stale)
    /\ frame' = [frame EXCEPT !.submit_answer = IdleFrame.submit_answer]
    /\ Goto("submit_answer", "idle")
    /\ UNCHANGED <<quiz_data, current_question, chatbot, quiz_question,
                   answer_choices>>

\* next_question, line 171 true
NextTestPasses ==
    /\ ~Running("next_question")
    /\ CanAdvance
    /\ Goto("next_question", "increment")
    /\ frame' = [frame EXCEPT !.next_question = IdleFrame.next_question]
    /\ UNCHANGED <<globals, outputs, last>>

\* line 171 false: lines 177-181
NextTestFails ==
    /\ ~Running("next_question")
    /\ NextQuestionFinished

\* line 172
NextIncrement ==
    /\ pc["next_question"] = "increment"
    /\ current_question' = current_question + 1
    /\ Goto("next_question", "read")
    /\ UNCHANGED <<quiz_data, answer_submitted, outputs, last, frame>>

\* line 173: quiz_data[current_question], an IndexError when the list has
\* shrunk since the test
NextRead ==
    /\ pc["next_question"] = "read"
    /\ IF HasCurrentQuestion
       THEN /\ frame' = [frame EXCEPT !.next_question.question =
                                          quiz_data[current_question + 1]]
            /\ Goto("next_question", "reset")
            /\ UNCHANGED last
       ELSE /\ last' = ConcCall("next_question", <<>>, "raise", 0,
                                NoGeneration, frame.next_question.stale)
            /\ frame' = [frame EXCEPT
                            !.next_question = IdleFrame.next_question]
            /\ Goto("next_question", "idle")
    /\ UNCHANGED <<globals, outputs>>

\* lines 174-175
NextReset ==
    /\ pc["next_question"] = "reset"
    /\ answer_submitted' = FALSE
    /\ quiz_question' = frame.next_question.question[1]
    /\ answer_choices' = frame.next_question.question[2]
    /\ feedback' = <<>>
    /\ submit_answer_btn' = TRUE
    /\ next_btn' = FALSE
    /\ last' = ConcCall("next_question", <<>>, "advanced", 0, NoGeneration,
                        frame.next_question.stale)
    /\ frame' = [frame EXCEPT !.next_question = IdleFrame.next_question]
    /\ Goto("next_question", "idle")
    /\ UNCHANGED <<quiz_data, current_question, chatbot>>

ChatStep ==
    \/ \E route \in ConcRoutes : ChatClear(route)
    \/ \E generation \in ConcGenerations : ChatExtend(generation)
    \/ ChatResetPosition
    \/ ChatResetSubmitted
    \/ ChatReturn
    \/ ChatOther

SubmitStep ==
    \/ \E user_answer \in ConcAnswers :
           SubmitTestPasses(user_answer) \/ SubmitTestFails(user_answer)
    \/ SubmitRead
    \/ SubmitEvaluate

NextStep ==
    \/ NextTestPasses
    \/ NextTestFails
    \/ NextIncrement
    \/ NextRead
    \/ NextReset

NextConc == ChatStep \/ SubmitStep \/ NextStep

SpecConc == Init /\ [][NextConc]_vars

(***************************************************************************)
(* One quiz run: a single query is handled from the initial state and no    *)
(* quiz request follows; submit_answer is called with any selection, and    *)
(* next_question only right after a submit_answer call, so every advance   *)
(* is preceded by a submit_answer on the current question.  The user keeps  *)
(* going: a submit_answer call that changes something is eventually made,   *)
(* and so is the next_question call that a submit_answer call has made due.  *)
(***************************************************************************)
RunStart == last.op = "none" /\ ChatResponse

RunSubmit == last.op # "none" /\ SubmitAnswer

RunAdvance == last.op = "submit_answer" /\ NextQuestion

NextRun == RunStart \/ RunSubmit \/ RunAdvance

SpecRun ==
    Init /\ [][NextRun]_vars /\ WF_vars(RunSubmit) /\ WF_vars(RunAdvance)

(***************************************************************************)
(* Properties.  A call is identified by the record it leaves in last: the  *)
(* handler, its argument, the branch taken, and the position, submitted    *)
(* flag and list length it found.                                          *)
(***************************************************************************)
QuizRequestDone == last.op = "chat_response" /\ last.branch = "quiz"

\* C1: handling a user query never crashes: for every query and every
\* outcome of the retriever and the completion call, chat_response ends
\* with a result and no exception leaves it.
C1_RouterNeverRaises ==
    last.op = "chat_response" => last.branch # "raise"

\* C2: the query "give me a quiz with 3 questions" starts a quiz with
\* count 3: the quiz is generated for, and truncated to, 3 questions.
C2_SpecExampleCountIsThree ==
    (last.op = "chat_response" /\ last.arg = QuerySpecExample)
        => /\ last.branch = "quiz"
           /\ last.num = 3
           /\ Len(quiz_data) <= 3

\* C3 as stated: when the parser accepts zero blocks of the completion
\* text the result is exactly the one sentinel question, so after any quiz
\* request the session holds at least one question.  (Stated here for the
\* requests that ask for at least one question.)
C3_ZeroAcceptedGivesSentinel ==
    (QuizRequestDone /\ last.num > 0)
        => /\ quiz_data # <<>>
           /\ (~last.completion_raised /\ last.accepted = 0)
                  => quiz_data = SentinelQuestions

\* C3 as amended: when the parser accepts zero blocks of a completion text
\* the result is the empty list, the session is empty and the reply is
\* "Failed to generate quiz." with the answer controls disabled; the one
\* sentinel question is the result exactly when the completion call
\* raises.
C3_ZeroAcceptedGivesEmpty ==
    QuizRequestDone
        => /\ last.completion_raised <=> quiz_data = SentinelQuestions
           /\ (~last.completion_raised /\ last.accepted = 0)
                  => /\ quiz_data = <<>>
                     /\ chatbot = <<last.arg, FailedToGenerateMsg>>
                     /\ quiz_question = NoQuestionsAvailableMsg
                     /\ ~submit_answer_btn

\* C3 witness: a quiz request whose completion text held no accepted block.
C3_Witness_ZeroAccepted ==
    /\ QuizRequestDone
    /\ ~last.completion_raised
    /\ last.accepted = 0
    /\ last.num > 0
    /\ quiz_data = <<>>

\* The first character of a label that is not whitespace, uppercased.
FirstNonBlankUpper(label) ==
    LET i == CHOOSE k \in 1..Len(label) :
                 /\ label[k] \notin Whitespace
                 /\ \A j \in 1..(k - 1) : label[j] \in Whitespace
    IN  <<UpperChar(label[i])>>

HasNonBlank(label) ==
    /\ label # NoneAnswer
    /\ \E k \in 1..Len(label) : label[k] \notin Whitespace

\* C4: submit_answer is a no-op outside AwaitingAnswer: when the current
\* question was already submitted, or the position is not below the number
\* of questions, it returns "no active question" without evaluating, and
\* position, submitted and questions are unchanged.  (Stated here for the
\* labels that hold a character other than whitespace.)
C4_SubmitIsNoOpOutsideAwaiting ==
    (/\ last.op = "submit_answer"
     /\ HasNonBlank(last.arg)
     /\ (last.sub \/ last.pos >= last.len))
        => /\ last.branch = "no_question"
           /\ feedback = NoMoreQuestionsMsg
           /\ current_question = last.pos
           /\ answer_submitted = last.sub
           /\ Len(quiz_data) = last.len

\* C5: next_question on a question that has not been submitted leaves
\* position and submitted unchanged and reports "cannot advance yet", not
\* a finished or completed quiz, whatever the length of the session.
C5_AdvanceBeforeSubmitIsNotFinished ==
    (last.op = "next_question" /\ ~last.sub)
        => /\ current_question = last.pos
           /\ answer_submitted = last.sub
           /\ feedback # QuizFinishedMsg
           /\ quiz_question \notin {QuizCompletedMsg,
                                    NoMoreQuestionsAvailableMsg}

\* C6: a new quiz discards the previous session atomically: a
\* submit_answer or next_question that was running when the quiz request
\* replaced the session is rejected; it evaluates no question of the new
\* session, changes neither its position nor its submitted flag, and
\* never indexes past the end of the list.
C6_StaleCallIsRejected ==
    last.stale => last.branch \notin {"raise", "evaluated", "advanced"}

\* C7: when the completion call fails during a quiz request no quiz is
\* started: the reply is not "Quiz started!", no question becomes the
\* active question, and the answer controls are not enabled.
C7_CompletionFailureStartsNoQuiz ==
    (QuizRequestDone /\ last.completion_raised)
        => /\ chatbot # <<last.arg, QuizStartedMsg>>
           /\ ~HasCurrentQuestion
           /\ ~submit_answer_btn

\* C8: in the Submitted state at the last position, the one-question quiz
\* included, next_question reports the quiz finished with no next
\* question and changes neither position, submitted nor the questions; so
\* every later next_question finds the same state and reports the same.
C8_AdvanceAtLastFinishes ==
    [][(/\ last'.op = "next_question"
        /\ answer_submitted
        /\ current_question = Len(quiz_data) - 1)
           => /\ feedback' = QuizFinishedMsg
              /\ quiz_question' \in {QuizCompletedMsg,
                                     NoMoreQuestionsAvailableMsg}
              /\ answer_choices' = <<>>
              /\ ~submit_answer_btn'
              /\ ~next_btn'
              /\ UNCHANGED globals]_vars

\* C8 witness: next_question has finished a submitted one-question quiz.
C8_Witness_FinishedAtLast ==
    /\ last.op = "next_question"
    /\ last.branch = "finished"
    /\ last.sub
    /\ last.len = 1
    /\ last.pos = 0
    /\ feedback = QuizFinishedMsg
    /\ answer_submitted

\* C9: in the Submitted state with position < len(questions) - 1,
\* next_question increments position by exactly 1, sets submitted to
\* false, leaves the questions unchanged and returns the question at the
\* new position.
C9_AdvanceMovesToNext ==
    [][(/\ last'.op = "next_question"
        /\ answer_submitted
        /\ current_question < Len(quiz_data) - 1)
           => /\ current_question' = current_question + 1
              /\ answer_submitted' = FALSE
              /\ quiz_data' = quiz_data
              /\ quiz_question' = quiz_data[current_question' + 1][1]
              /\ answer_choices' = quiz_data[current_question' + 1][2]]_vars

\* C9 witness: next_question has advanced from a submitted question that
\* was not the last.
C9_Witness_Advanced ==
    /\ last.op = "next_question"
    /\ last.branch = "advanced"
    /\ last.sub
    /\ last.pos < last.len - 1
    /\ current_question = last.pos + 1
    /\ ~answer_submitted

\* C10 as stated: is_correct is true exactly when the uppercased first
\* character of the selected label equals the uppercased correct_label of
\* the current question.
C10_FirstCharacterDecides ==
    (last.op = "submit_answer" /\ last.branch = "evaluated")
        => (feedback = CorrectMsg
               <=> Upper(<<last.arg[1]>>)
                       = Upper(quiz_data[current_question + 1][3]))

\* C10 as amended: with a current question, is_correct is true exactly
\* when the uppercased first character of the selected label that is not
\* leading whitespace equals the uppercased correct_label, whatever the
\* case of the label and the text after that character; a label with no
\* such character (blank, or nothing selected) gets no result: the
\* handler raises.
C10_FirstNonBlankCharacterDecides ==
    (last.op = "submit_answer" /\ last.pos < last.len)
        => IF HasNonBlank(last.arg)
           THEN /\ last.branch = "evaluated"
                /\ feedback = CorrectMsg
                       <=> FirstNonBlankUpper(last.arg)
                               = Upper(quiz_data[last.pos + 1][3])
           ELSE last.branch = "raise"

\* C10 witness: the label " B", whose first character is a space, was
\* evaluated as correct.
C10_Witness_PaddedLabelCorrect ==
    /\ last.op = "submit_answer"
    /\ last.branch = "evaluated"
    /\ last.arg = LabelPaddedB
    /\ feedback = CorrectMsg

\* The completion outcome the last quiz request met, rebuilt from the call
\* record.
LastCompletion ==
    IF last.completion_raised THEN CompletionRaises
    ELSE CompletionOk(last.content)

\* C11: a quiz request replaces the whole session whatever the prior state
\* was: after a query classified as a quiz request is handled, the
\* questions are exactly the newly generated list, the position is 0 and
\* submitted is false.
C11_QuizRequestReplacesSession ==
    (last.op = "chat_response" /\ IsQuizRequest(last.arg))
        => /\ current_question = 0
           /\ answer_submitted = FALSE
           /\ last.branch = "quiz"
                  => quiz_data
                         = GenerateQuizQuestions(LastCompletion, last.num)
           /\ last.branch # "quiz" => quiz_data = <<>>

\* The blocks of the completion text the last quiz request met:
\* the text, trimmed, cut at every blank line.
LastBlocks == Split(Strip(last.content), BlankLine)

\* The indices of the blocks that contain both markers.
AcceptedIndices ==
    {i \in 1..Len(LastBlocks) :
        /\ Contains(LastBlocks[i], CorrectAnswerMarker)
        /\ Contains(LastBlocks[i], ExplanationMarker)}

\* The index of the j-th block that contains both markers.
AcceptedIndex(j) ==
    CHOOSE i \in AcceptedIndices :
        Cardinality({k \in AcceptedIndices : k <= i}) = j

Min(a, b) == IF a <= b THEN a ELSE b

\* C12: the parser returns, in order of appearance, the first
\* min(max_questions, number of accepted blocks) blocks of the
\* blank-line-separated text, a block being accepted exactly when it
\* contains both "Correct Answer:" and "Explanation:"; the other blocks are
\* dropped without affecting the rest.
C12_ParserKeepsFirstAcceptedBlocks ==
    (QuizRequestDone /\ ~last.completion_raised)
        => /\ Len(quiz_data) = Min(last.num, Cardinality(AcceptedIndices))
           /\ \A j \in 1..Len(quiz_data) :
                  quiz_data[j] = ParseBlock(LastBlocks[AcceptedIndex(j)])

\* C12 witness: a quiz request whose completion text holds blocks that miss
\* a marker and more accepted blocks than the request asked for.
C12_Witness_DroppedAndTruncated ==
    /\ QuizRequestDone
    /\ ~last.completion_raised
    /\ last.num >= 1
    /\ Cardinality(AcceptedIndices) > last.num
    /\ Len(LastBlocks) > Cardinality(AcceptedIndices)
    /\ Len(quiz_data) = last.num

\* The word occurs in the query at position i, each letter in either case.
OccursAnyCaseAt(query, word, i) ==
    /\ i + Len(word) - 1 <= Len(query)
    /\ \A k \in 1..Len(word) :
           query[i + k - 1] \in {word[k], UpperChar(word[k])}

ContainsAnyCase(query, word) ==
    \E i \in 1..Len(query) : OccursAnyCaseAt(query, word, i)

\* C13: classification is by substring on the lower-cased query with fixed
\* precedence: a query containing "quiz" is a quiz request even if it also
\* contains "summarize"; otherwise one containing "summarize" or
\* "summarise" is a summarize request; otherwise it is a plain answer
\* request.  "can you summarize this" is a summarize request and "what is
\* the capital" a plain answer request.
C13_ClassificationBySubstring ==
    last.op = "chat_response"
        => /\ last.branch \in {"quiz", "raise"}
                  <=> ContainsAnyCase(last.arg, QuizWord)
           /\ last.branch = "summarize"
                  <=> /\ ~ContainsAnyCase(last.arg, QuizWord)
                      /\ \/ ContainsAnyCase(last.arg, SummarizeWord)
                         \/ ContainsAnyCase(last.arg, SummariseWord)
           /\ last.branch = "answer"
                  <=> /\ ~ContainsAnyCase(last.arg, QuizWord)
                      /\ ~ContainsAnyCase(last.arg, SummarizeWord)
                      /\ ~ContainsAnyCase(last.arg, SummariseWord)
           /\ last.arg = QuerySummarize => last.branch = "summarize"
           /\ last.arg = QueryCapital => last.branch = "answer"

\* C13 witness: a query that contains both "summarise" and "quiz" was
\* handled as a quiz request.
C13_Witness_QuizTakesPrecedence ==
    /\ last.op = "chat_response"
    /\ last.arg = QuerySummariseQuiz
    /\ last.branch = "quiz"

\* The token is a base-10 integer literal: one or more of the digits 0-9.
IsIntegerLiteral(token) ==
    /\ token # <<>>
    /\ \A k \in 1..Len(token) : token[k] \in AsciiDigits

\* C14: for a quiz request the count is the value of the third
\* space-separated token of the query when that token is a base-10 integer
\* literal, and 5 in every other case, a query of fewer than three tokens
\* included.
C14_CountIsThirdTokenOrFive ==
    (last.op = "chat_response" /\ IsQuizRequest(last.arg))
        => /\ last.branch = "quiz"
           /\ last.num
                  = IF Len(QueryTokens(last.arg)) < 3
                    THEN DefaultNumQuestions
                    ELSE IF IsIntegerLiteral(QueryTokens(last.arg)[3])
                    THEN IntOf(QueryTokens(last.arg)[3])
                    ELSE DefaultNumQuestions

\* C15: in every state reached by a sequence of quiz requests,
\* submit_answer calls, advances and summarize or plain queries,
\* 0 <= position <= len(questions), and whenever the session is non-empty
\* the position is a valid index, position < len(questions).
C15_PositionWithinSession ==
    /\ 0 <= current_question
    /\ current_question <= Len(quiz_data)
    /\ quiz_data # <<>> => current_question < Len(quiz_data)

\* C15 witness: a quiz request arrived at a position past the first and
\* left a session of one question.
C15_Witness_ShorterQuizAfterAdvance ==
    /\ QuizRequestDone
    /\ last.pos >= 1
    /\ Len(quiz_data) = 1
    /\ current_question = 0

\* C16: once submit_answer has evaluated an answer for an in-range
\* position, submitted is true whether the answer was correct or not and
\* the position is unchanged; when the position is out of range, the empty
\* session included, submit_answer does not set submitted.
C16_EvaluatedSubmitSetsSubmitted ==
    [][last'.op = "submit_answer"
           => /\ last'.branch = "evaluated"
                     => /\ current_question < Len(quiz_data)
                        /\ answer_submitted' = TRUE
                        /\ current_question' = current_question
                        /\ quiz_data' = quiz_data
              /\ current_question >= Len(quiz_data)
                     => /\ last'.branch = "no_question"
                        /\ answer_submitted' = answer_submitted
                        /\ current_question' = current_question]_vars

\* C16 witness: submit_answer has evaluated an incorrect answer to a
\* question not yet submitted, and submitted is true.
C16_Witness_IncorrectAnswerSubmitted ==
    /\ last.op = "submit_answer"
    /\ last.branch = "evaluated"
    /\ ~last.sub
    /\ feedback # CorrectMsg
    /\ answer_submitted
    /\ current_question = last.pos

\* The text of a block after its last "Correct Answer:".
AfterCorrectAnswer(block) ==
    LET i == CHOOSE k \in 1..Len(block) :
                 /\ OccursAt(block, CorrectAnswerMarker, k)
                 /\ \A m \in (k + 1)..Len(block) :
                        ~OccursAt(block, CorrectAnswerMarker, m)
    IN  SubSeq(block, i + Len(CorrectAnswerMarker), Len(block))

\* The text between the markers of a block: from its last
\* "Correct Answer:" up to the next "Explanation:", or to the end of the
\* block when none follows.
BetweenMarkers(block) ==
    LET rest == AfterCorrectAnswer(block)
        ends == {k \in 1..Len(rest) : OccursAt(rest, ExplanationMarker, k)}
    IN  IF ends = {} THEN rest
        ELSE SubSeq(rest, 1, (CHOOSE k \in ends : \A m \in ends : k <= m) - 1)

\* C17 as stated: for every accepted block the stored correct_label is the
\* text between "Correct Answer:" and "Explanation:", trimmed and converted
\* to uppercase.
C17_StoredLabelIsUppercased ==
    (QuizRequestDone /\ ~last.completion_raised)
        => \A j \in 1..Len(quiz_data) :
               quiz_data[j][3]
                   = Upper(Strip(BetweenMarkers(LastBlocks[AcceptedIndex(j)])))

\* C17 as amended: for every accepted block the stored correct_label is
\* the text between "Correct Answer:" and "Explanation:", trimmed, in the
\* case the completion text has it; it is uppercased for the comparison
\* only, and the incorrect-answer feedback displays it as stored.
C17_StoredLabelKeepsCase ==
    /\ (QuizRequestDone /\ ~last.completion_raised)
           => \A j \in 1..Len(quiz_data) :
                  quiz_data[j][3]
                      = Strip(BetweenMarkers(LastBlocks[AcceptedIndex(j)]))
    /\ (/\ last.op = "submit_answer"
        /\ last.branch = "evaluated"
        /\ feedback # CorrectMsg)
           => feedback = IncorrectPrefix
                             \o quiz_data[current_question + 1][3]
                             \o ExplanationPrefix
                             \o quiz_data[current_question + 1][4]

\* C17 witness: a quiz request has stored the label of a block with
\* "Correct Answer: c" as the lowercase "c".
C17_Witness_LowercaseLabelStored ==
    /\ QuizRequestDone
    /\ ~last.completion_raised
    /\ last.content = BlockLowerC
    /\ quiz_data # <<>>
    /\ quiz_data[1][3] = <<"c">>

\* C18: no question can be skipped.  Within one quiz session, that is on
\* every step other than a quiz request, the position changes only through
\* next_question, only by +1 and only from a state with submitted true;
\* and every index below the position has had an answer evaluated by
\* submit_answer since the session began.
C18_NoQuestionSkipped ==
    [][/\ (/\ current_question' # current_question
           /\ ~(last'.op = "chat_response" /\ last'.branch = "quiz"))
              => /\ last'.op = "next_question"
                 /\ current_question' = current_question + 1
                 /\ answer_submitted
       /\ \A i \in 0..(current_question' - 1) : i \in last'.evaluated]_vars

\* C18 witness: the third question of a session has been reached, the
\* first two having been evaluated.
C18_Witness_ThirdQuestionReached ==
    /\ last.op = "next_question"
    /\ last.branch = "advanced"
    /\ current_question = 2
    /\ last.evaluated = {0, 1}

\* C19: summarize and plain-answer queries leave the quiz session
\* unchanged: the questions, the position and submitted after such a query
\* equal their values before it, whether or not the completion call fails,
\* even when a quiz is in progress.
C19_PromptQueriesKeepSession ==
    [][(/\ last'.op = "chat_response"
        /\ last'.branch \in {"summarize", "answer"})
           => /\ quiz_data' = quiz_data
              /\ current_question' = current_question
              /\ answer_submitted' = answer_submitted]_vars

\* C19 witness: a summarize query whose completion call failed was
\* answered while a submitted question of a quiz in progress stood.
C19_Witness_FailedSummaryDuringQuiz ==
    /\ last.op = "chat_response"
    /\ last.branch = "summarize"
    /\ chatbot[2] = ErrorPrefix \o CompletionErrorText
    /\ last.len >= 2
    /\ last.pos = 1
    /\ last.sub
    /\ Len(quiz_data) = last.len
    /\ current_question = 1
    /\ answer_submitted

\* C20: a quiz of N >= 1 questions always completes: with no new quiz
\* request and every advance preceded by a submit_answer on the current
\* question, the session eventually reports finished, and it does so at the
\* N-th advance, the position having taken each value 0..N-1 in increasing
\* order: the position moves by +1 only, and when finished is reported the
\* position is N-1.
C20_QuizCompletesAtNthAdvance ==
    /\ (quiz_data # <<>>) ~> (feedback = QuizFinishedMsg)
    /\ [][current_question' # current_question
              => current_question' = current_question + 1]_vars
    /\ []((/\ quiz_data # <<>>
           /\ feedback = QuizFinishedMsg)
              => current_question = Len(quiz_data) - 1)

====
